---- MODULE Spec2Model ----
(***************************************************************************)
(* A model of entropix/model.py: the rotary transform, the int8-quantized  *)
(* attention kernel (sageattn), the attention layer and the layer loop of  *)
(* xfmr with its threaded key/value cache.                                 *)
(*                                                                         *)
(* Numbers.  Tensor elements are exact rationals carried as integer        *)
(* numerators over a denominator that is fixed by the operation: a         *)
(* quantization scale max|row|/127 is carried as max|row|, a dequantized   *)
(* score as the numerator over 127*127*kden.  Floating-point rounding is   *)
(* not modelled.  A softmax row is carried by its logits, and an attention *)
(* output row by the (logit, value row) pairs of its unmasked keys.        *)
(***************************************************************************)
EXTENDS Integers, Sequences, FiniteSets, TLC

VARIABLES
  pc,          \* position of the operation under study
  \* quantize_int8 on one row
  row, nan_cast, qrow,
  \* apply_rotary_emb
  xq, xk, freqs_cis, rot_out,
  \* sageattn on shapes
  qshape, kshape, vshape, shres,
  \* sageattn on values: one call, and a second call on other keys/values
  in_q, in_k, in_v, in_k2, in_v2, attn_mask, is_causal, smooth_k, res, res2,
  \* a generation session: xfmr calls threading one KVCache
  model_params,  \* [n_layers, n_local_heads, n_local_kv_heads, head_dim]
  bsz,           \* tokens.shape[0]
  kvcache,       \* the cache the caller holds: [layer][position] -> the call that wrote it, 0 if none
  call_no,       \* the number of xfmr calls made
  hist,          \* the <<cur_pos, seq_len>> of every call made
  committed,     \* cur_pos + seq_len of the last call that returned
  in_order,      \* every call so far started at cur_pos = committed
  cur_pos, seq_len,
  layer_i,       \* xfmr's loop variable i
  kvc,           \* xfmr's local kvcache, rebound by every layer
  keys_len,      \* length of the keys the last cache update returned
  scores,        \* xfmr's local scores: the layer that produced them and their shape
  attn_stats,    \* the shapes handed to AttnStats.update, one per layer
  last_attn,     \* what the last successful sageattn call did: mask and attended keys
  attended,      \* per absolute query position, the keys it attended to
  ret            \* what the last returned call returned

quantVars  == <<row, qrow>>
rotaryVars == <<xq, xk, freqs_cis, rot_out>>
shapeVars  == <<qshape, kshape, vshape, shres>>
sageVars   == <<in_q, in_k, in_v, in_k2, in_v2, attn_mask, is_causal, smooth_k, res, res2>>

frameVars  == <<cur_pos, seq_len, layer_i, kvc, keys_len, scores, attn_stats, last_attn>>
xfmrVars   == <<model_params, bsz, kvcache, call_no, hist, committed, in_order,
                frameVars, attended, ret>>

vars == <<pc, nan_cast, quantVars, rotaryVars, shapeVars, sageVars, xfmrVars>>

Null == [none |-> TRUE]

\* attn_mask = None
NoMask == <<>>

-----------------------------------------------------------------------------
(* Bounds of the model. *)

MaxRowLen == 2      \* longest row given to quantize_int8
MaxAbsVal == 3      \* row elements range over -MaxAbsVal..MaxAbsVal
MaxHalf   == 2      \* head_dim of the rotary inputs ranges over 1..2*MaxHalf
MaxRotSeq == 2      \* seq of the rotary inputs
MaxRotHeads == 2    \* heads of the rotary inputs
MaxDim    == 3      \* every dimension of the shapes given to sageattn
MaxLen    == 3      \* q_len, kv_len and head_dim of the values given to sageattn
MaxLayers == 2      \* model_params.n_layers
MaxHeads  == 2      \* model_params.n_local_heads
MaxBatch  == 2      \* tokens.shape[0]
MaxHeadDim == 4     \* model_params.head_dim
MaxSeqLen == 4      \* the KVCache's maximum sequence length
MaxCalls  == 3      \* xfmr calls in one session

-----------------------------------------------------------------------------
(* Arithmetic helpers. *)

Abs(x) == IF x < 0 THEN -x ELSE x

SetMax(S) == CHOOSE m \in S : \A y \in S : y <= m

RECURSIVE SumSeq(_)
SumSeq(s) == IF s = <<>> THEN 0 ELSE Head(s) + SumSeq(Tail(s))

\* jnp.max(jnp.abs(x), axis=-1) of one row
MaxAbs(r) == SetMax({Abs(r[i]) : i \in 1..Len(r)} \cup {0})

\* a mutant of the rounding: truncation towards minus infinity
RoundFloor(n, d) == n \div d

\* jnp.round(n/d), d > 0: nearest integer, ties to the even one
RoundHalfEven(n, d) ==
  LET f == n \div d
      r == n - f * d
  IN  IF 2 * r < d THEN f
      ELSE IF 2 * r > d THEN f + 1
      ELSE IF f % 2 = 0 THEN f ELSE f + 1

\* two's-complement wrap to 8 bits: the int8 result of an int8 computation
Wrap8(x) == ((x + 128) % 256) - 128

\* the values a cast of NaN to int8 may produce (0/0 for an all-zero row)
NanCasts == {-128, 0, 127}

-----------------------------------------------------------------------------
(* quantize_int8, model.py lines 40-43, on one row (a slice along the last *)
(* axis).  scale is max|row|/127, carried as its numerator max|row|.       *)

quantize_row(r, nan) ==
  LET m == MaxAbs(r)
  IN  [q     |-> [i \in 1..Len(r) |->
                    IF m = 0 THEN nan ELSE Wrap8(RoundHalfEven(127 * r[i], m))],
       scale |-> m]

\* per-row quantization of a matrix (a sequence of rows)
quantize_int8(x, nan) ==
  [q     |-> [i \in 1..Len(x) |-> quantize_row(x[i], nan).q],
   scale |-> [i \in 1..Len(x) |-> quantize_row(x[i], nan).scale]]

-----------------------------------------------------------------------------
(* apply_rotary_emb, model.py lines 23-32.  A tensor [1, seq, heads,       *)
(* head_dim] is a sequence (seq) of sequences (heads) of rows; freqs_cis   *)
(* [seq, head_dim/2] holds complex numbers <<re, im>>.                     *)

\* reshape(..., -1, 2) then lax.complex(x[..., 0], x[..., 1])
ToComplex(v) == [p \in 1..(Len(v) \div 2) |-> <<v[2 * p - 1], v[2 * p]>>]

CMul(a, b) == <<a[1] * b[1] - a[2] * b[2], a[1] * b[2] + a[2] * b[1]>>

\* a mutant of the unpacking: imaginary part first
FromComplexSwapped(c) == [e \in 1..(2 * Len(c)) |-> c[(e + 1) \div 2][1 + (e % 2)]]

\* stack((real, imag), axis=-1).reshape(..., -1)
FromComplex(c) == [e \in 1..(2 * Len(c)) |-> c[(e + 1) \div 2][2 - (e % 2)]]

rotate(x, fc) ==
  [s \in 1..Len(x) |-> [h \in 1..Len(x[s]) |->
     LET c == ToComplex(x[s][h])
     IN  FromComplex([p \in 1..Len(c) |-> CMul(c[p], fc[s][p])])]]

\* the reshape to pairs fails when head_dim is odd
apply_rotary_emb(xq_, xk_, fc) ==
  IF Len(xq_[1][1]) % 2 # 0 \/ Len(xk_[1][1]) % 2 # 0
  THEN [err |-> "reshape"]
  ELSE [err |-> "none", xq |-> rotate(xq_, fc), xk |-> rotate(xk_, fc)]

-----------------------------------------------------------------------------
(* Shapes.  A shape is a tuple of dimensions; 0 marks a dimension that     *)
(* numpy broadcasting rejects.                                             *)

BroadcastDim(a, b) == IF a = b THEN a ELSE IF a = 1 THEN b ELSE IF b = 1 THEN a ELSE 0

BroadcastShape(a, b) == [n \in 1..Len(a) |-> BroadcastDim(a[n], b[n])]

ShapeOk(sh) == \A n \in 1..Len(sh) : sh[n] # 0

\* jnp.transpose(x, (0, 1, 3, 2))
SwapLast(sh) == <<sh[1], sh[2], sh[4], sh[3]>>

\* jnp.max(..., axis=-1, keepdims=True)
KeepLast(sh) == <<sh[1], sh[2], sh[3], 1>>

\* jnp.matmul on rank-4 operands: [.., n, m] x [.., m, p]; 0 when m differs
MatmulShape(a, b) ==
  <<BroadcastDim(a[1], b[1]), BroadcastDim(a[2], b[2]), a[3],
    IF a[4] = b[3] THEN b[4] ELSE 0>>

(* sageattn, model.py lines 34-64, on shapes: q [b, h, q_len, d],          *)
(* k [b, h, d, kv_len], v [b, h, kv_len, d].  The result names the line    *)
(* that raises, or gives the shapes of the output and of pre_scores.       *)
sageattn_shape(qs, ks, vs) ==
  LET q_scale  == KeepLast(qs)                                   \* line 45
      k_scale  == KeepLast(ks)                                   \* line 46
      int_sc   == MatmulShape(qs, ks)                            \* line 49
      scales   == BroadcastShape(q_scale, SwapLast(k_scale))     \* line 50
      sc_shape == BroadcastShape(int_sc, scales)                 \* line 50
      output   == MatmulShape(sc_shape, vs)                      \* line 62
  IN  IF ~ShapeOk(int_sc) THEN [err |-> "matmul_qk"]
      ELSE IF ~ShapeOk(sc_shape) THEN [err |-> "broadcast_scales"]
      ELSE IF ~ShapeOk(output) THEN [err |-> "matmul_v"]
      ELSE [err |-> "none", out |-> output, pre |-> sc_shape]

-----------------------------------------------------------------------------
(* sageattn, model.py lines 34-64, on values, for one batch and one head.  *)
(* A matrix is a sequence of rows: q is q_len x d, k is d x kv_len, v is   *)
(* kv_len x d.                                                             *)

NRows(m) == Len(m)
NCols(m) == Len(m[1])

\* an extended real: a finite numerator or minus infinity
Fin(n) == [fin |-> TRUE, num |-> n]
NegInf == [fin |-> FALSE, num |-> 0]
AddExt(a, b) == IF a.fin /\ b.fin THEN Fin(a.num + b.num) ELSE NegInf

\* line 37: k - jnp.mean(k, axis=-2, keepdims=True); axis -2 of
\* [b, h, d, kv_len] is the head_dim axis.  Numerators over NRows(m).
Smooth(m) ==
  [c \in 1..NRows(m) |-> [j \in 1..NCols(m) |->
     NRows(m) * m[c][j] - SumSeq([cc \in 1..NRows(m) |-> m[cc][j]])]]

\* line 49: jnp.matmul of two int8 arrays gives an int8 array
MatmulInt8(a, b) ==
  [i \in 1..NRows(a) |-> [j \in 1..NCols(b) |->
     Wrap8(SumSeq([c \in 1..NCols(a) |-> a[i][c] * b[c][j]]))]]

\* lines 57-58: jnp.tril(jnp.ones_like(scores)), rows and columns from 1
Tril(i, t) == t <= i

sageattn(q_, k_, v_, head_dim_, mask_, causal_, smooth_, nan) ==
  LET ql  == NRows(q_)
      d   == NRows(k_)
      kv  == NCols(k_)
      sh  == sageattn_shape(<<1, 1, ql, NCols(q_)>>, <<1, 1, d, kv>>,
                            <<1, 1, NRows(v_), NCols(v_)>>)
      ks  == IF smooth_ THEN Smooth(k_) ELSE k_                      \* 36-37
      qq  == quantize_int8(q_, nan)                                  \* 45
      kq  == quantize_int8(ks, nan)                                  \* 46
      isc == MatmulInt8(qq.q, kq.q)                                  \* 49
      w   == sh.pre[4]
      \* line 50: scores * (q_scale * k_scale^T), broadcast [ql,kv] with [ql,d]
      sc  == [i \in 1..ql |-> [t \in 1..w |->
                isc[i][IF kv = 1 THEN 1 ELSE t]
                  * qq.scale[i] * kq.scale[IF d = 1 THEN 1 ELSE t]]]
      \* lines 53-54: the additive mask, broadcast to the score shape
      sm  == [i \in 1..ql |-> [t \in 1..w |->
                IF mask_ = NoMask THEN Fin(sc[i][t])
                ELSE AddExt(Fin(sc[i][t]),
                            mask_[i][IF NCols(mask_) = 1 THEN 1 ELSE t])]]
      \* lines 56-58
      lg  == [i \in 1..ql |-> [t \in 1..w |->
                IF causal_ /\ ~Tril(i, t) THEN NegInf ELSE sm[i][t]]]
      \* lines 60-62: softmax over the last axis, then weights x v
      ref(i) == lg[i][CHOOSE t \in 1..w : lg[i][t].fin /\ \A u \in 1..(t - 1) : ~lg[i][u].fin].num
      orow(i) == IF \A t \in 1..w : ~lg[i][t].fin THEN <<>>
                 ELSE [j \in 1..kv |->
                        IF lg[i][j].fin
                        THEN [on |-> TRUE, w |-> lg[i][j].num - ref(i), v |-> v_[j]]
                        ELSE [on |-> FALSE, w |-> 0, v |-> <<>>]]
  IN  IF sh.err # "none" THEN [err |-> sh.err]
      ELSE [err      |-> "none",
            k_smooth |-> ks,
            kden     |-> IF smooth_ THEN d ELSE 1,
            \* line 51: pre_scores = scores / sqrt(head_dim), as num/sqrt(rad)
            pre      |-> [num |-> sc, rad |-> head_dim_],
            logits   |-> lg,
            out      |-> [i \in 1..ql |-> orow(i)]]

-----------------------------------------------------------------------------
(* The key/value cache (entropix.kvcache, not part of model.py).  A cache  *)
(* maps [layer][position] to the number of the call whose projections the  *)
(* slot holds, 0 for a slot never written.  Layers are numbered from 1     *)
(* (layer_idx + 1), positions from 0.                                      *)

KVCache_new(n_layers) == [l \in 1..n_layers |-> [p \in 0..(MaxSeqLen - 1) |-> 0]]

\* update(xk, xv, layer_idx, cur_pos, n_rep): writes the slab
\* [layer_idx, cur_pos : cur_pos + step_len) and returns the keys and values
\* of positions [0, cur_pos + step_len) with the kv heads repeated n_rep times
KVCache_update(cache, tag, layer_idx, cp, step_len, kv_heads, n_rep) ==
  [cache |-> [l \in DOMAIN cache |-> [p \in DOMAIN cache[l] |->
                IF l = layer_idx + 1 /\ p >= cp /\ p < cp + step_len
                THEN tag ELSE cache[l][p]]],
   keys_len   |-> cp + step_len,
   keys_heads |-> kv_heads * n_rep]

-----------------------------------------------------------------------------
(* attention, model.py lines 67-88. *)

\* a mutant of line 74: every layer writes the slab of layer 0
attention_update_layer0(cache, tag, mp, layer_idx, cp, sl) ==
  KVCache_update(cache, tag, 0, cp, sl, mp.n_local_kv_heads,
                 mp.n_local_heads \div mp.n_local_kv_heads)

\* lines 69, 74: kvcache.update(xk, xv, layer_idx, cur_pos, n_rep)
attention_update(cache, tag, mp, layer_idx, cp, sl) ==
  KVCache_update(cache, tag, layer_idx, cp, sl, mp.n_local_kv_heads,
                 mp.n_local_heads \div mp.n_local_kv_heads)

\* lines 70-73: the projections are reshaped to head_dim and rotated; the
\* rotary reshape to pairs raises when head_dim is odd
attention_rotary_ok(mp) == mp.head_dim % 2 = 0

\* lines 76-88: transposes, is_causal = cur_pos > 0, sageattn, output reshape
attention_sage(mp, b, cp, sl, klen) ==
  LET kheads == mp.n_local_kv_heads * (mp.n_local_heads \div mp.n_local_kv_heads)
      sh == sageattn_shape(<<b, mp.n_local_heads, sl, mp.head_dim>>,
                           <<b, kheads, mp.head_dim, klen>>,
                           <<b, kheads, klen, mp.head_dim>>)
      causal == cp > 0                                               \* line 81
      masked == {it \in (1..sl) \X (1..klen) : causal /\ ~Tril(it[1], it[2])}
  IN  IF sh.err # "none" THEN [err |-> sh.err]
      ELSE [err       |-> "none",
            pre       |-> sh.pre,
            is_causal |-> causal,
            masked    |-> masked,
            \* per query row, the absolute key positions left unmasked
            keys      |-> [i \in 1..sl |-> {t - 1 : t \in {u \in 1..klen : <<i, u>> \notin masked}}],
            out       |-> <<sh.out[1], sh.out[3], sh.out[2] * sh.out[4]>>]   \* line 85

\* line 105: scores[:,:,-1,:]
last_position(sh) == <<sh[1], sh[2], sh[4]>>

\* a mutant of line 109: the scores are returned sliced at the last position
xfmr_return_sliced(scores_, attn_stats_) ==
  [scores |-> [layer |-> scores_.layer, shape |-> last_position(scores_.shape)],
   attn_stats |-> attn_stats_]

\* line 109: return logits, kvcache, scores, attn_stats
xfmr_return(scores_, attn_stats_) == [scores |-> scores_, attn_stats |-> attn_stats_]

\* one whole attention call on a cache that holds klen - sl earlier positions
attention_outcome(mp, b, cp, sl) ==
  IF ~attention_rotary_ok(mp) THEN [err |-> "reshape"]
  ELSE attention_sage(mp, b, cp, sl, cp + sl)

-----------------------------------------------------------------------------
(* quantize_int8 applied to rows drawn from a bounded set. *)

RowVals == (0 - MaxAbsVal)..MaxAbsVal

Rows == UNION {[1..n -> RowVals] : n \in 1..MaxRowLen}

\* the variables of the operations a specification does not exercise
IdleQuant  == row = <<>> /\ qrow = Null
IdleRotary == xq = <<>> /\ xk = <<>> /\ freqs_cis = <<>> /\ rot_out = Null
IdleShape  == qshape = <<>> /\ kshape = <<>> /\ vshape = <<>> /\ shres = Null
IdleSage   == /\ in_q = <<>> /\ in_k = <<>> /\ in_v = <<>> /\ in_k2 = <<>> /\ in_v2 = <<>>
              /\ attn_mask = NoMask /\ is_causal = FALSE /\ smooth_k = FALSE
              /\ res = Null /\ res2 = Null
IdleXfmr   == /\ model_params = Null /\ bsz = 0 /\ kvcache = <<>> /\ call_no = 0
              /\ hist = <<>> /\ committed = 0 /\ in_order = TRUE
              /\ cur_pos = 0 /\ seq_len = 0 /\ layer_i = 0 /\ kvc = <<>>
              /\ keys_len = 0 /\ scores = Null /\ attn_stats = <<>>
              /\ last_attn = Null /\ attended = <<>> /\ ret = Null

InitQuant ==
  /\ pc = "start"
  /\ row \in Rows
  /\ nan_cast \in NanCasts
  /\ qrow = Null
  /\ IdleRotary /\ IdleShape /\ IdleSage /\ IdleXfmr

Quantize ==
  /\ pc = "start"
  /\ qrow' = quantize_row(row, nan_cast)
  /\ pc' = "done"
  /\ UNCHANGED <<row, nan_cast, rotaryVars, shapeVars, sageVars, xfmrVars>>

NextQuant == Quantize

SpecQuant == InitQuant /\ [][NextQuant]_vars

-----------------------------------------------------------------------------
(* apply_rotary_emb applied to tensors drawn from a bounded family. *)

\* the four quarter turns: exp(i * n * pi/2)
Unit(n) == CASE n % 4 = 0 -> <<1, 0>>
             [] n % 4 = 1 -> <<0, 1>>
             [] n % 4 = 2 -> <<-1, 0>>
             [] n % 4 = 3 -> <<0, -1>>

\* freqs_cis[s][p] = exp(i * position * theta[p]), theta in quarter turns
Freqs(seq, half, pos0, theta) ==
  [s \in 1..seq |-> [p \in 1..half |-> Unit((pos0 + s - 1) * theta[p])]]

\* a tensor whose elements differ across seq, heads and head_dim
Tensor(seq, heads, vec) ==
  [s \in 1..seq |-> [h \in 1..heads |-> [e \in 1..Len(vec) |-> vec[e] + 3 * (s - 1) - 5 * (h - 1)]]]

InitRotary ==
  /\ pc = "start"
  /\ \E dim \in 1..(2 * MaxHalf), seq \in 1..MaxRotSeq, heads \in 1..MaxRotHeads :
       \E vq \in [1..dim -> {1, 2}], kb \in {0, 1}, pos0 \in {0, 1},
          theta \in [1..(dim \div 2) -> {0, 1}] :
         /\ xq = Tensor(seq, heads, vq)
         /\ xk = Tensor(seq, heads, [e \in 1..dim |-> kb - e])
         /\ freqs_cis = Freqs(seq, dim \div 2, pos0, theta)
  /\ rot_out = Null
  /\ nan_cast = 0
  /\ IdleQuant /\ IdleShape /\ IdleSage /\ IdleXfmr

Rotate ==
  /\ pc = "start"
  /\ rot_out' = apply_rotary_emb(xq, xk, freqs_cis)
  /\ pc' = "done"
  /\ UNCHANGED <<xq, xk, freqs_cis, nan_cast, quantVars, shapeVars, sageVars, xfmrVars>>

NextRotary == Rotate

SpecRotary == InitRotary /\ [][NextRotary]_vars

-----------------------------------------------------------------------------
(* sageattn applied to well-formed shapes drawn from 1..MaxDim. *)

InitShape ==
  /\ pc = "start"
  /\ \E b \in 1..MaxDim, h \in 1..MaxDim, ql \in 1..MaxDim, kv \in 1..MaxDim,
        d \in 1..MaxDim :
       /\ qshape = <<b, h, ql, d>>
       /\ kshape = <<b, h, d, kv>>
       /\ vshape = <<b, h, kv, d>>
  /\ shres = Null
  /\ nan_cast = 0
  /\ IdleQuant /\ IdleRotary /\ IdleSage /\ IdleXfmr

RunShape ==
  /\ pc = "start"
  /\ shres' = sageattn_shape(qshape, kshape, vshape)
  /\ pc' = "done"
  /\ UNCHANGED <<qshape, kshape, vshape, nan_cast, quantVars, rotaryVars, sageVars, xfmrVars>>

NextShape == RunShape

SpecShape == InitShape /\ [][NextShape]_vars

-----------------------------------------------------------------------------
(* sageattn applied to values drawn from a bounded family, and a second    *)
(* time to keys and values that differ from the first after position cut.  *)

KVals == {1, 2, 4}

QMat(ql, d) == [i \in 1..ql |-> [c \in 1..d |-> i + c - 1]]
KMat(d, kv, ksel) == [c \in 1..d |-> [j \in 1..kv |-> ksel[j] * c]]
VMat(kv, d) == [j \in 1..kv |-> [c \in 1..d |-> j + c]]
ZeroMask(ql, kv) == [i \in 1..ql |-> [j \in 1..kv |-> Fin(0)]]

InitSage ==
  /\ pc = "start"
  /\ \E ql \in 1..MaxLen, kv \in 1..MaxLen, d \in 1..MaxLen :
       \E ksel \in [1..kv -> KVals], cut \in 1..kv, kalt \in KVals, valt \in {0, 7} :
         /\ in_q = QMat(ql, d)
         /\ in_k = KMat(d, kv, ksel)
         /\ in_v = VMat(kv, d)
         /\ in_k2 = KMat(d, kv, [j \in 1..kv |-> IF j <= cut THEN ksel[j] ELSE kalt])
         /\ in_v2 = [j \in 1..kv |-> [c \in 1..d |->
                       IF j <= cut THEN j + c ELSE j + c + valt]]
         /\ attn_mask \in {NoMask, ZeroMask(ql, kv)}
  /\ is_causal \in BOOLEAN
  /\ smooth_k \in BOOLEAN
  /\ nan_cast \in NanCasts
  /\ res = Null /\ res2 = Null
  /\ IdleQuant /\ IdleRotary /\ IdleShape /\ IdleXfmr

RunSage ==
  /\ pc = "start"
  /\ res'  = sageattn(in_q, in_k, in_v, NCols(in_q), attn_mask, is_causal, smooth_k, nan_cast)
  /\ res2' = sageattn(in_q, in_k2, in_v2, NCols(in_q), attn_mask, is_causal, smooth_k, nan_cast)
  /\ pc' = "done"
  /\ UNCHANGED <<in_q, in_k, in_v, in_k2, in_v2, attn_mask, is_causal, smooth_k,
                 nan_cast, quantVars, rotaryVars, shapeVars, xfmrVars>>

NextSage == RunSage

SpecSage == InitSage /\ [][NextSage]_vars

-----------------------------------------------------------------------------
(* xfmr, model.py lines 95-109, called repeatedly on one cache.  A call    *)
(* runs the layers in order; each layer is the cache update of attention   *)
(* (lines 68-74) followed by the rest of the layer (lines 76-88, 105-107). *)
(* An exception leaves the caller with the cache it passed in.             *)

NoQuery == [done |-> FALSE, keys |-> {}]

InitXfmr ==
  /\ pc = "idle"
  /\ \E nl \in 1..MaxLayers, nh \in 1..MaxHeads, hd \in 1..MaxHeadDim :
       \E nkv \in {n \in 1..nh : nh % n = 0} :
         /\ model_params = [n_layers |-> nl, n_local_heads |-> nh,
                            n_local_kv_heads |-> nkv, head_dim |-> hd]
         /\ kvcache = KVCache_new(nl)
  /\ bsz \in 1..MaxBatch
  /\ call_no = 0 /\ hist = <<>> /\ committed = 0 /\ in_order = TRUE
  /\ cur_pos = 0 /\ seq_len = 0 /\ layer_i = 0 /\ kvc = kvcache
  /\ keys_len = 0 /\ scores = Null /\ attn_stats = <<>> /\ last_attn = Null
  /\ attended = [p \in 0..(MaxSeqLen - 1) |-> NoQuery]
  /\ ret = Null
  /\ nan_cast = 0
  /\ IdleQuant /\ IdleRotary /\ IdleShape /\ IdleSage

\* lines 95-101: the call starts, with tokens [bsz, sl] at position cp
XfmrCall(cp, sl) ==
  /\ pc = "idle"
  /\ call_no < MaxCalls
  /\ cp + sl <= MaxSeqLen
  /\ call_no' = call_no + 1
  /\ hist' = Append(hist, <<cp, sl>>)
  /\ in_order' = (in_order /\ cp = committed)
  /\ cur_pos' = cp /\ seq_len' = sl
  /\ layer_i' = 0
  /\ kvc' = kvcache
  /\ keys_len' = 0 /\ scores' = Null /\ attn_stats' = <<>>
  /\ pc' = "layer"
  /\ UNCHANGED <<model_params, bsz, kvcache, committed, last_attn, attended, ret>>

\* lines 103-104, 68-74: layer i projects, rotates and updates the cache
AttentionUpdate ==
  /\ pc = "layer"
  /\ IF attention_rotary_ok(model_params)
     THEN LET u == attention_update(kvc, call_no, model_params, layer_i, cur_pos, seq_len)
          IN  /\ kvc' = u.cache
              /\ keys_len' = u.keys_len
              /\ pc' = "sage"
     ELSE /\ pc' = "error"
          /\ UNCHANGED <<kvc, keys_len>>
  /\ UNCHANGED <<model_params, bsz, kvcache, call_no, hist, committed, in_order,
                 cur_pos, seq_len, layer_i, scores, attn_stats, last_attn, attended, ret>>

\* lines 76-88, 105-107: layer i attends, hands scores[:,:,-1,:] to AttnStats
AttentionSage ==
  /\ pc = "sage"
  /\ LET a == attention_sage(model_params, bsz, cur_pos, seq_len, keys_len)
     IN  IF a.err = "none"
         THEN /\ scores' = [layer |-> layer_i, shape |-> a.pre]
              /\ attn_stats' = Append(attn_stats, last_position(a.pre))
              /\ last_attn' = a
              /\ attended' = [p \in DOMAIN attended |->
                               IF p >= cur_pos /\ p < cur_pos + seq_len
                               THEN [done |-> TRUE, keys |-> a.keys[p - cur_pos + 1]]
                               ELSE attended[p]]
              /\ layer_i' = layer_i + 1
              /\ pc' = IF layer_i + 1 = model_params.n_layers THEN "return" ELSE "layer"
         ELSE /\ pc' = "error"
              /\ UNCHANGED <<scores, attn_stats, last_attn, attended, layer_i>>
  /\ UNCHANGED <<model_params, bsz, kvcache, call_no, hist, committed, in_order,
                 cur_pos, seq_len, kvc, keys_len, ret>>

\* lines 108-109: return logits, kvcache, scores, attn_stats
XfmrReturn ==
  /\ pc = "return"
  /\ kvcache' = kvc
  /\ committed' = cur_pos + seq_len
  /\ ret' = xfmr_return(scores, attn_stats)
  /\ pc' = "idle"
  /\ UNCHANGED <<model_params, bsz, call_no, hist, in_order, frameVars, attended>>

NextXfmr ==
  \/ \E cp \in 0..(MaxSeqLen - 1), sl \in 1..MaxSeqLen :
       XfmrCall(cp, sl) /\ UNCHANGED <<nan_cast, quantVars, rotaryVars, shapeVars, sageVars>>
  \/ AttentionUpdate /\ UNCHANGED <<nan_cast, quantVars, rotaryVars, shapeVars, sageVars>>
  \/ AttentionSage /\ UNCHANGED <<nan_cast, quantVars, rotaryVars, shapeVars, sageVars>>
  \/ XfmrReturn /\ UNCHANGED <<nan_cast, quantVars, rotaryVars, shapeVars, sageVars>>

SpecXfmr == InitXfmr /\ [][NextXfmr]_vars

-----------------------------------------------------------------------------
\* C6: for every row given to quantize_int8, every quantized element lies in
\* the signed 8-bit range and the round trip q[i]*scale differs from x[i] by at
\* most scale/2, with scale = max|x|/127 (stated over numerators:
\* 2*|q[i]*max|x| - 127*x[i]| <= max|x|).
C6_QuantRoundTrip ==
  pc = "done" /\ qrow # Null =>
    \A i \in 1..Len(row) :
      /\ qrow.q[i] \in -128..127
      /\ qrow.scale = MaxAbs(row)
      /\ 2 * Abs(qrow.q[i] * qrow.scale - 127 * row[i]) <= qrow.scale

\* a row was quantized whose quotient x/scale is not an integer (it is rounded)
C6_Witness ==
  /\ pc = "done" /\ qrow # Null
  /\ \E i \in 1..Len(row) : qrow.scale # 0 /\ (127 * row[i]) % qrow.scale # 0

\* C7: with freqs_cis = 1+0i at every entry and head_dim even,
\* apply_rotary_emb returns xq and xk unchanged, element for element in the
\* same interleaved order.
AllOnes(fc) == \A s \in 1..Len(fc) : \A p \in 1..Len(fc[s]) : fc[s][p] = <<1, 0>>

C7_RotaryIdentity ==
  (pc = "done" /\ rot_out # Null /\ Len(xq[1][1]) % 2 = 0 /\ AllOnes(freqs_cis)) =>
    /\ rot_out.err = "none"
    /\ rot_out.xq = xq
    /\ rot_out.xk = xk

\* the transform ran with all-ones freqs_cis on rows of two or more pairs whose
\* real and imaginary parts differ
C7_Witness ==
  /\ pc = "done" /\ rot_out # Null /\ AllOnes(freqs_cis)
  /\ Len(xq) >= 2 /\ Len(xq[1]) >= 2 /\ Len(xq[1][1]) = 4
  /\ rot_out.err = "none"
  /\ xq[1][1][1] # xq[1][1][2]

-----------------------------------------------------------------------------
\* C3: for every well-formed Q [b, h, q_len, d], K [b, h, d, kv_len] and
\* V [b, h, kv_len, d] with all dimensions >= 1, sageattn raises no shape or
\* broadcast error and returns an output of shape [b, h, q_len, d] and
\* pre-softmax scores of shape [b, h, q_len, kv_len].
C3_KernelTotal ==
  pc = "done" /\ shres # Null =>
    /\ shres.err = "none"
    /\ shres.out = qshape
    /\ shres.pre = <<qshape[1], qshape[2], qshape[3], kshape[4]>>

\* the output row of a query: two rows are the same weighted sum when their
\* unmasked keys carry the same logit differences and value rows, or when all
\* their unmasked keys carry one and the same value row
OneValue(r) ==
  \E j \in 1..Len(r) : r[j].on /\ \A u \in 1..Len(r) : r[u].on => r[u].v = r[j].v

ValueOf(r) == r[CHOOSE j \in 1..Len(r) : r[j].on].v

SameOutput(r1, r2) ==
  \/ r1 = r2
  \/ r1 # <<>> /\ r2 # <<>> /\ OneValue(r1) /\ OneValue(r2) /\ ValueOf(r1) = ValueOf(r2)

AgreeUpTo(p) ==
  \A j \in 1..NCols(in_k) : j <= p =>
    /\ \A c \in 1..NRows(in_k) : in_k[c][j] = in_k2[c][j]
    /\ in_v[j] = in_v2[j]

\* C2: with is_causal=True, for every query position p, two runs with equal Q
\* whose K and V agree on all key positions <= p produce the same output row
\* at query position p.
C2_CausalNonInterference ==
  (pc = "done" /\ res # Null /\ is_causal /\ res.err = "none" /\ res2.err = "none") =>
    \A p \in 1..NRows(in_q) : AgreeUpTo(p) => SameOutput(res.out[p], res2.out[p])

Sign(x) == IF x < 0 THEN -1 ELSE IF x > 0 THEN 1 ELSE 0

\* a/sqrt(ra) = b/sqrt(rb)
EqSqrt(a, ra, b, rb) == Sign(a) = Sign(b) /\ a * a * rb = b * b * ra

\* C9: the tensor sageattn masks and feeds to softmax is the returned
\* pre_softmax_scores (the dequantized scores divided by sqrt(head_dim)); with
\* no mask and is_causal=False the attention weights are the softmax of
\* pre_softmax_scores (equal logit differences along the key axis).
C9_SoftmaxOfPreScores ==
  (pc = "done" /\ res # Null /\ res.err = "none" /\ attn_mask = NoMask /\ ~is_causal) =>
    \A i \in 1..Len(res.logits) : \A t \in 1..Len(res.logits[i]) :
      /\ res.logits[i][t].fin
      /\ EqSqrt(res.logits[i][t].num, 1, res.pre.num[i][t], res.pre.rad)
      /\ EqSqrt(res.logits[i][t].num - res.logits[i][1].num, 1,
                res.pre.num[i][t] - res.pre.num[i][1], res.pre.rad)

\* C10: with smoothing enabled, sageattn subtracts from K[c][j] the mean of
\* K[c][:] over the key positions, so every channel of the smoothed K sums to
\* zero over the key positions.
C10_SmoothOverKeys ==
  (pc = "done" /\ res # Null /\ res.err = "none" /\ smooth_k) =>
    \A c \in 1..NRows(in_k) :
      /\ SumSeq(res.k_smooth[c]) = 0
      /\ \A j \in 1..NCols(in_k) :
           NCols(in_k) * res.k_smooth[c][j]
             = res.kden * (NCols(in_k) * in_k[c][j] - SumSeq(in_k[c]))

-----------------------------------------------------------------------------
InCall == pc \in {"layer", "sage", "return"}

\* the positions the current call writes
Slab == {p \in 0..(MaxSeqLen - 1) : p >= cur_pos /\ p < cur_pos + seq_len}

\* the number of layers whose cache update has run in the current call
LayersWritten == IF pc = "sage" THEN layer_i + 1 ELSE layer_i

C5_Inv ==
  /\ InCall =>
       \A l \in 1..model_params.n_layers :
         \* (1) exactly the layers already run hold this call's projections
         /\ l <= LayersWritten => \A p \in Slab : kvc[l][p] = call_no
         /\ l > LayersWritten  => \A p \in Slab : kvc[l][p] # call_no
         \* (3) everything outside the slab is what earlier calls committed
         /\ \A p \in 0..(MaxSeqLen - 1) : p \notin Slab => kvc[l][p] = kvcache[l][p]
  \* when a call has returned, every layer holds every position below committed
  /\ (pc = "idle" /\ in_order) =>
       \A l \in 1..model_params.n_layers :
         \A p \in 0..(MaxSeqLen - 1) : p < committed => kvcache[l][p] # 0

\* (2) a step inside a call changes the local cache only in the update of layer
\* i, and then only the slab of layer i
C5_Step ==
  InCall =>
    \A l \in 1..model_params.n_layers : \A p \in 0..(MaxSeqLen - 1) :
      kvc'[l][p] # kvc[l][p] =>
        pc = "layer" /\ pc' = "sage" /\ l = layer_i + 1 /\ p \in Slab /\ kvc'[l][p] = call_no

\* C5: over a session of xfmr calls, each on the cache the previous call
\* returned and starting at cur_pos = positions committed so far: after layer i
\* has run, layers 0..i hold this call's projections on
\* [cur_pos, cur_pos+seq_len) and later layers do not yet; each layer's slab is
\* written once, by that layer's own update; positions outside the slab keep
\* the committed values; when a call returns every layer holds all positions
\* [0, cur_pos+seq_len).
C5_CacheInvariant == [](in_order => C5_Inv) /\ [][in_order' => C5_Step]_vars

\* a second call of a session, at cur_pos > 0, has updated layer 0 and not yet
\* layer 1
C5_Witness ==
  /\ pc = "sage" /\ in_order /\ call_no = 2 /\ cur_pos > 0 /\ layer_i = 0
  /\ model_params.n_layers >= 2
  /\ ret # Null

\* C4: the scores xfmr returns as its third result are the last layer's
\* pre-softmax scores and have shape [batch, heads, kv_len] with
\* kv_len = cur_pos + seq_len, the shape handed to AttnStats.update for each
\* layer.
C4_ReturnedScoresShape ==
  (pc = "idle" /\ ret # Null) =>
    /\ ret.scores.layer = model_params.n_layers - 1
    /\ ret.scores.shape = <<bsz, model_params.n_local_heads, cur_pos + seq_len>>
    /\ Len(ret.attn_stats) = model_params.n_layers
    /\ \A l \in 1..Len(ret.attn_stats) : ret.attn_stats[l] = ret.scores.shape

\* C4 (amended): the scores a call returns as its third result are the last
\* layer's pre-softmax scores, unsliced, of shape
\* [batch, heads, seq_len, kv_len] with kv_len = cur_pos + seq_len; what each
\* layer hands to AttnStats.update is their slice at the last query position,
\* of shape [batch, heads, kv_len].
C4_ReturnedScoresRank4 ==
  (pc = "idle" /\ ret # Null) =>
    /\ ret.scores.layer = model_params.n_layers - 1
    /\ ret.scores.shape = <<bsz, model_params.n_local_heads, seq_len, cur_pos + seq_len>>
    /\ Len(ret.attn_stats) = model_params.n_layers
    /\ \A l \in 1..Len(ret.attn_stats) :
         ret.attn_stats[l] = <<bsz, model_params.n_local_heads, cur_pos + seq_len>>

\* a call of two layers, two tokens, two batch rows and two heads has returned
C4_Witness ==
  /\ pc = "idle" /\ ret # Null
  /\ model_params.n_layers >= 2 /\ seq_len >= 2 /\ bsz >= 2
  /\ model_params.n_local_heads >= 2

\* C8: in an attention call with cur_pos > 0, the score of query i against key
\* j is masked if and only if the key's position j exceeds the query's
\* position cur_pos + i (rows and columns counted from 1: t > cur_pos + i);
\* every key at a position <= the query's position is attended.
C8_ExactCausalMask ==
  (pc \in {"layer", "return"} /\ layer_i > 0 /\ cur_pos > 0) =>
    \A i \in 1..seq_len : \A t \in 1..keys_len :
      /\ (<<i, t>> \in last_attn.masked) <=> (t > cur_pos + i)
      /\ (t <= cur_pos + i) => (t - 1) \in last_attn.keys[i]

\* C1: for a single layer, the calls (cur_pos=0, one token) then (cur_pos=1,
\* one token) on the threaded cache give each of the two positions the
\* attention result of the single call (cur_pos=0, two tokens): both calls
\* return, and each query position attends to the same key positions.
C1_IncrementalEqualsPrefill ==
  LET prefill == attention_outcome(model_params, bsz, 0, 2)
      incremental == /\ model_params.n_layers = 1
                     /\ hist # <<>> /\ hist[1] = <<0, 1>>
                     /\ Len(hist) >= 2 => hist[2] = <<1, 1>>
                     /\ Len(hist) <= 2
  IN  (pc \in {"idle", "error", "return"} /\ incremental /\ prefill.err = "none") =>
        /\ pc # "error"
        /\ (pc = "idle" /\ Len(hist) = 2) =>
             \A p \in 0..1 : attended[p] = [done |-> TRUE, keys |-> prefill.keys[p + 1]]

====
